---- MODULE Spec2Model ----
(***************************************************************************)
(* Model of src/viewer.py: the live-preview server of a trained scene.     *)
(*   Viewer.__init__ / _reorient   one-time start-up and scene reorienting *)
(*   Viewer.start                  hooks and the live-mutable sliders      *)
(*   Viewer._handle_*              registry (self.clients) and broadcast   *)
(*   Client                        one thread per connection: render loop  *)
(* Threads interleave between statements; every action below is one        *)
(* statement (or a run of statements that touches no shared field twice).  *)
(***************************************************************************)
EXTENDS Integers, Sequences, FiniteSets, TLC

(* ---- bounds of the model ---- *)
NumSessions == 2          \* connection ids 1..NumSessions, each connects once
MaxEvents == 4            \* events of the transport and the GUI delivered in
                          \* total: connects, disconnects of a registered
                          \* connection, camera updates, slider movements

Sessions == 1..NumSessions

VARIABLES
  (* Viewer: start-up *)
  vpc,                  \* "init" | "failed" | "constructed" | "serving"
  mode,                 \* reorient argument of Viewer.__init__
  cameras_json_exists,  \* os.path.exists(cameras_json_path)
  dataset_type,         \* ckpt["datamodule_hyper_parameters"]["type"]
  up_sum,               \* sum over cameras.json of rotation[:3, 1]
  camera_transform,     \* self.camera_transform, a 4x4 matrix
  fs_touched,           \* _reorient asked the file system about cameras.json
  (* one call of rotation_matrix(up, [0, 0, 1]) and its recursive calls *)
  rot_pc,               \* "idle" | "call" | "returned" | "recursion_error"
  rot_a,                \* argument a of the innermost call
  rot_depth,            \* recursive calls below the first one
  (* one evaluation of lines 89-96 of render_and_send *)
  res_pc,               \* "idle" | "input" | "done"
  max_res,              \* the resolution cap get_render_options returned
  aspect_ratio,         \* cam.aspect as a fraction <<numerator, denominator>>
  image_width, image_height,
  (* Viewer: registry and sliders *)
  order,                \* entries of the dict self.clients, in insertion order
  clients,              \* keys of self.clients that are present
  opt_version,          \* number of slider changes applied so far: stands
                        \* for the values of the sliders
  bpc,                  \* _handle_option_updated: "idle" | "next" | "b1" | "b2"
  bpos,                 \* dict iterator: index into order already passed
  bsize,                \* dict iterator: len(self.clients) when it was created
  blen,                 \* dict iterator: keys it still expects
  bcur,                 \* loop variable i of _handle_option_updated
  bkeys,                \* dict iterator: entries of the dict at its creation
  escaped,              \* callbacks out of which an exception propagated
  events,               \* events delivered so far
  (* Client, per connection id *)
  pc,                   \* position of Client.run: "none" | "wait" | "woke" |
                        \* "promote" | "clear" | "render" | "read" |
                        \* "rendering" | "done"
  trigger_wait_return,  \* local of Client.run
  render_trigger,       \* threading.Event flag
  last_camera,          \* 0 is None, k > 0 the k-th pose of this connection
  state,                \* "low" | "high"
  stop_client,
  failed,               \* the loop left through the except branch
  hpc,                  \* camera.on_update handler: "idle" | "h2" | "h3"
  camera,               \* client.camera: number of the pose the transport holds
  rcam, rtier, rver,    \* what the render in flight read: pose, tier, options
  rwxyz, rpos,          \* the pose behind the orientation (line 71) and the
                        \* position (line 74) the render in flight read
  rendered,             \* history: the latest pose a frame was started from
  cleanups,             \* history: calls of _destroy
  midrender_notice,     \* history: a broadcast notice taken while a render
                        \* was in flight: 0 none, -1 state written, k > 0
                        \* signalled too (at options k), -2 the render now in
                        \* flight is the first one after such a notice
  dead_at_disconnect,   \* history: the disconnect that removed the session
                        \* found its thread already ended
  quiet                 \* history: 0, or since a wait timed out in "low" with
                        \* a pose cached no pose update and no broadcast has
                        \* touched the session: 1 no frame started since,
                        \* 2 one frame, 3 more than one or a second promotion

vars == << vpc, mode, cameras_json_exists, dataset_type, up_sum,
           camera_transform, fs_touched, rot_pc, rot_a, rot_depth, res_pc,
           max_res, aspect_ratio, image_width, image_height, order, clients,
           opt_version, bpc,
           bpos, bsize, blen, bcur, escaped, events, pc, trigger_wait_return,
           render_trigger, last_camera, state, stop_client, failed, hpc,
           camera, rcam, rtier, rver, midrender_notice, dead_at_disconnect,
           quiet, bkeys, rwxyz, rpos, rendered, cleanups >>

startup_vars == << mode, cameras_json_exists, dataset_type, up_sum >>
broadcast_vars == << bpc, bpos, bsize, blen, bcur, bkeys >>
render_vars == << rcam, rtier, rver, rwxyz, rpos >>
rotation_vars == << rot_pc, rot_a, rot_depth >>
resolution_vars == << res_pc, max_res, aspect_ratio, image_width,
                      image_height >>

(* ---- Viewer._reorient ---- *)
Modes == {"auto", "enable", "disable"}
DatasetTypes == {"blender", "colmap"}
\* Reference contents: the summed "up" columns, axis aligned so that the
\* float arithmetic of rotation_matrix is exact.  The vector that is
\* anti-parallel to the target after negation is not among them.
UpSums == { <<0, 0, -1>>, <<-1, 0, 0>>, <<0, 1, 0>> }

eye3 == << <<1, 0, 0>>, <<0, 1, 0>>, <<0, 0, 1>> >>
eye4 == << <<1, 0, 0, 0>>, <<0, 1, 0, 0>>, <<0, 0, 1, 0>>, <<0, 0, 0, 1>> >>

dot(a, b) == a[1] * b[1] + a[2] * b[2] + a[3] * b[3]
cross(a, b) == << a[2] * b[3] - a[3] * b[2],
                  a[3] * b[1] - a[1] * b[3],
                  a[1] * b[2] - a[2] * b[1] >>
matmul3(A, B) == [i \in 1..3 |-> [j \in 1..3 |->
                    A[i][1] * B[1][j] + A[i][2] * B[2][j] + A[i][3] * B[3][j]]]

\* torch.eye(3) + K + K @ K * ((1 - c) / (s ** 2 + 1e-8)) on unit vectors with
\* integer entries: s ** 2 is 0 or 1, and 1e-8 vanishes in float32 beside 1.
rotation_matrix(a, b) ==
  LET v == cross(a, b)
      c == dot(a, b)
      s2 == dot(v, v)
      K == << <<0, -v[3], v[2]>>, <<v[3], 0, -v[1]>>, <<-v[2], v[1], 0>> >>
      KK == matmul3(K, K)
      f == IF s2 = 0 THEN (1 - c) * 100000000 ELSE (1 - c) \div s2
  IN [i \in 1..3 |-> [j \in 1..3 |-> eye3[i][j] + K[i][j] + KK[i][j] * f]]

\* transform[:3, :3] = rotation; torch.linalg.inv(transform): the inverse of a
\* rotation embedded in a homogeneous matrix is its transpose.
embed_inverse(R) ==
  [i \in 1..4 |-> [j \in 1..4 |->
     IF i <= 3 /\ j <= 3 THEN R[j][i] ELSE IF i = j THEN 1 ELSE 0]]

reorient_enable_as_auto(m, exists, type, ups) ==
  IF m = "disable" THEN [status |-> "ok", transform |-> eye4, io |-> FALSE]
  ELSE IF ~exists THEN [status |-> "ok", transform |-> eye4, io |-> TRUE]
  ELSE IF type = "blender" /\ m = "auto"
    THEN [status |-> "ok", transform |-> eye4, io |-> TRUE]
  ELSE [status |-> "ok", io |-> TRUE,
        transform |-> embed_inverse(rotation_matrix(
                         <<-ups[1], -ups[2], -ups[3]>>, <<0, 0, 1>>))]

reorient_disable_late(m, exists, type, ups) ==
  IF ~exists
    THEN IF m = "enable"
           THEN [status |-> "error", transform |-> eye4, io |-> TRUE]
           ELSE [status |-> "ok", transform |-> eye4, io |-> TRUE]
  ELSE IF type = "blender" /\ m = "auto"
    THEN [status |-> "ok", transform |-> eye4, io |-> TRUE]
  ELSE [status |-> "ok", io |-> TRUE,
        transform |-> embed_inverse(rotation_matrix(
                         <<-ups[1], -ups[2], -ups[3]>>, <<0, 0, 1>>))]

\* status "error" is the RuntimeError of line 226; up = -up / norm(up).
reorient(m, exists, type, ups) ==
  IF m = "disable" THEN [status |-> "ok", transform |-> eye4, io |-> FALSE]
  ELSE IF ~exists
    THEN IF m = "enable"
           THEN [status |-> "error", transform |-> eye4, io |-> TRUE]
           ELSE [status |-> "ok", transform |-> eye4, io |-> TRUE]
  ELSE IF type = "blender" /\ m = "auto"
    THEN [status |-> "ok", transform |-> eye4, io |-> TRUE]
  ELSE [status |-> "ok", io |-> TRUE,
        transform |-> embed_inverse(rotation_matrix(
                         <<-ups[1], -ups[2], -ups[3]>>, <<0, 0, 1>>))]

(* ---- rotation_matrix: the branch for opposite vectors ---- *)
\* Vectors are integer triples in units of 0.005, the largest offset line
\* 259 adds to one component: a unit vector along an axis has length Scale.
Scale == 200
MaxRecursion == 3     \* calls the interpreter allows below the first one

\* up = -up / norm(up) of line 240 for the sums of UpSums and for the sum
\* <<0, 0, 1>>, which makes up the exact opposite of b = [0, 0, 1]
RotationInputs == { <<0, 0, -Scale>>, <<0, 0, Scale>>, <<Scale, 0, 0>>,
                    <<0, -Scale, 0>> }

\* eps = (torch.rand(3) - 0.5) * 0.01 of line 259: per component the lowest
\* value (rand = 0), zero (rand = 0.5) and the top of the range
Eps == { <<x, y, z>> : x \in {-1, 0, 1}, y \in {-1, 0, 1}, z \in {-1, 0, 1} }

\* lines 253-258 with b = [0, 0, 1]: c = dot(a / norm(a), b) < -1 + 1e-8.
\* One unit off the axis gives c > -1 + 1e-5, so on this grid the test is
\* true exactly for the vectors that point along -b.
opposite(a) == a[1] = 0 /\ a[2] = 0 /\ a[3] < 0

\* line 253 for a vector along an axis
normalised(a) ==
  [i \in 1..3 |-> IF a[i] > 0 THEN Scale ELSE IF a[i] < 0 THEN -Scale ELSE 0]

RotationIdle == rot_pc = "idle" /\ rot_a = <<0, 0, 0>> /\ rot_depth = 0

(* ---- render_and_send: the size of the image, lines 89-96 ---- *)
MaxRes == 8           \* caps 1..MaxRes
MaxAspect == 4        \* aspect ratios n/d with n, d in 1..MaxAspect

\* int() of a positive quotient truncates; the products and quotients of
\* the code are taken exactly.
resolution_no_clamp(cap, aspect) ==
  [width |-> (cap * aspect[1]) \div aspect[2], height |-> cap]

resolution(cap, aspect) ==
  LET height == cap
      width == (height * aspect[1]) \div aspect[2]
  IN IF width > cap
       THEN [width |-> cap, height |-> (cap * aspect[2]) \div aspect[1]]
       ELSE [width |-> width, height |-> height]

ResolutionIdle ==
  /\ res_pc = "idle" /\ max_res = 0 /\ aspect_ratio = <<1, 1>>
  /\ image_width = 0 /\ image_height = 0

(* ---- sliders of Viewer.start ---- *)
Sliders == {"max_res_when_static", "jpeg_quality_when_static",
            "max_res_when_moving", "jpeg_quality_when_moving",
            "scaling_modifier"}
\* the sliders on which start() calls on_update(self._handle_option_updated)
on_update_registered == {"max_res_when_static", "jpeg_quality_when_static",
                         "scaling_modifier"}

\* one more event is delivered
Event == events < MaxEvents /\ events' = events + 1

Min(S) == CHOOSE x \in S : \A y \in S : x <= y

(* ---- initial states ---- *)
SessionInit ==
  /\ order = << >>
  /\ clients = {}
  /\ opt_version = 0
  /\ bpc = "idle" /\ bpos = 0 /\ bsize = 0 /\ blen = 0 /\ bcur = 0
  /\ bkeys = 0
  /\ escaped = {}
  /\ events = 0
  /\ pc = [c \in Sessions |-> "none"]
  /\ trigger_wait_return = [c \in Sessions |-> FALSE]
  /\ render_trigger = [c \in Sessions |-> FALSE]
  /\ last_camera = [c \in Sessions |-> 0]
  /\ state = [c \in Sessions |-> "low"]
  /\ stop_client = [c \in Sessions |-> FALSE]
  /\ failed = [c \in Sessions |-> FALSE]
  /\ hpc = [c \in Sessions |-> "idle"]
  /\ camera = [c \in Sessions |-> 0]
  /\ rcam = [c \in Sessions |-> 0]
  /\ rtier = [c \in Sessions |-> "low"]
  /\ rver = [c \in Sessions |-> 0]
  /\ rwxyz = [c \in Sessions |-> 0]
  /\ rpos = [c \in Sessions |-> 0]
  /\ rendered = [c \in Sessions |-> 0]
  /\ cleanups = [c \in Sessions |-> 0]
  /\ midrender_notice = [c \in Sessions |-> 0]
  /\ quiet = [c \in Sessions |-> 0]
  /\ dead_at_disconnect = [c \in Sessions |-> FALSE]

\* before Viewer.__init__ has run, for every command line and model directory
InitStartup ==
  /\ vpc = "init"
  /\ mode \in Modes
  /\ cameras_json_exists \in BOOLEAN
  /\ dataset_type \in DatasetTypes
  /\ up_sum \in UpSums
  /\ camera_transform = eye4
  /\ fs_touched = FALSE
  /\ SessionInit
  /\ RotationIdle
  /\ ResolutionIdle

\* the server of the default command line (reorient = "auto", no cameras.json)
\* once start() has registered its hooks and sliders
Serving ==
  /\ vpc = "serving"
  /\ mode = "auto"
  /\ cameras_json_exists = FALSE
  /\ dataset_type = "colmap"
  /\ up_sum = <<0, 0, -1>>
  /\ camera_transform = reorient("auto", FALSE, "colmap", <<0, 0, -1>>).transform
  /\ fs_touched = reorient("auto", FALSE, "colmap", <<0, 0, -1>>).io
  /\ SessionInit

Init == Serving /\ RotationIdle /\ ResolutionIdle

session_vars == << order, clients, opt_version, bpc, bpos, bsize, blen, bcur,
                   escaped, events, pc, trigger_wait_return, render_trigger,
                   last_camera, state, stop_client, failed, hpc, camera, rcam,
                   rtier, rver, midrender_notice, dead_at_disconnect, quiet,
                   bkeys, rwxyz, rpos, rendered, cleanups >>

(* ---- Viewer.__init__ and Viewer.start ---- *)
\* lines 200-212: a RuntimeError of _reorient leaves __init__ before
\* self.clients = {} and the process before start()
Construct ==
  /\ vpc = "init"
  /\ LET r == reorient(mode, cameras_json_exists, dataset_type, up_sum) IN
       /\ fs_touched' = r.io
       /\ IF r.status = "error"
            THEN vpc' = "failed" /\ UNCHANGED camera_transform
            ELSE vpc' = "constructed" /\ camera_transform' = r.transform
  /\ UNCHANGED << startup_vars, session_vars, rotation_vars,
                  resolution_vars >>

\* lines 292-341: on_client_connect / on_client_disconnect and the sliders
Start ==
  /\ vpc = "constructed"
  /\ vpc' = "serving"
  /\ UNCHANGED << startup_vars, camera_transform, fs_touched, session_vars,
                  rotation_vars, resolution_vars >>

server_vars == << vpc, mode, cameras_json_exists, dataset_type, up_sum,
                  camera_transform, fs_touched >>
viewer_vars == << server_vars, rotation_vars, resolution_vars >>

(* ---- Viewer._handle_new_client ---- *)
\* Client(...) sets the fields of SessionInit and start() enters run(); the
\* thread is stored under client.client_id.  The code treats all ids alike,
\* so connections are numbered in the order in which they connect.
Connect(c) ==
  /\ vpc = "serving"
  /\ pc[c] = "none"
  /\ c = Len(order) + 1
  /\ Event
  /\ pc' = [pc EXCEPT ![c] = "wait"]
  /\ order' = Append(order, c)
  /\ clients' = clients \cup {c}
  /\ UNCHANGED << viewer_vars, rendered, cleanups, dead_at_disconnect, quiet,
                  opt_version, broadcast_vars, escaped, trigger_wait_return,
                  render_trigger, last_camera, state, stop_client, failed,
                  hpc, camera, render_vars, midrender_notice >>

(* ---- Viewer._handle_client_disconnect ---- *)
handle_client_disconnect_no_except(reg, stops, c) ==
  IF c \in reg
    THEN [clients |-> reg \ {c}, stop_client |-> [stops EXCEPT ![c] = TRUE],
          raised |-> FALSE]
    ELSE [clients |-> reg, stop_client |-> stops, raised |-> TRUE]

\* try: self.clients[id].stop(); del self.clients[id]; except Exception: print
handle_client_disconnect(reg, stops, c) ==
  IF c \in reg
    THEN [clients |-> reg \ {c}, stop_client |-> [stops EXCEPT ![c] = TRUE],
          raised |-> FALSE]
    ELSE [clients |-> reg, stop_client |-> stops, raised |-> FALSE]

\* the transport reports the end of a connection it had reported as new
Disconnect(c) ==
  /\ vpc = "serving"
  /\ pc[c] # "none"
  /\ LET r == handle_client_disconnect(clients, stop_client, c) IN
       /\ clients' = r.clients
       /\ stop_client' = r.stop_client
       /\ escaped' = IF r.raised THEN escaped \cup {"disconnect"} ELSE escaped
       /\ IF c \in clients THEN Event ELSE UNCHANGED events
       /\ dead_at_disconnect' = [dead_at_disconnect EXCEPT ![c] =
                                   IF c \in clients THEN pc[c] = "done" ELSE @]
  /\ UNCHANGED << viewer_vars, rendered, cleanups, quiet, order, opt_version,
                  broadcast_vars, pc, trigger_wait_return, render_trigger,
                  last_camera, state, failed, hpc, camera, render_vars,
                  midrender_notice >>

(* ---- a slider moves; Viewer._handle_option_updated ---- *)
\* the slider takes its new value and its on_update callbacks are called:
\* `for i in self.clients` creates the dict iterator
SliderUpdate(o) ==
  /\ vpc = "serving"
  /\ Event
  /\ opt_version' = opt_version + 1
  /\ IF o \in on_update_registered
       THEN /\ bpc = "idle"
            /\ bpc' = "next" /\ bpos' = 0 /\ bcur' = 0
            /\ bsize' = Cardinality(clients) /\ blen' = Cardinality(clients)
            /\ bkeys' = Len(order)
       ELSE UNCHANGED broadcast_vars
  /\ UNCHANGED << viewer_vars, rendered, cleanups, dead_at_disconnect, quiet,
                  order, clients, escaped, pc, trigger_wait_return,
                  render_trigger, last_camera, state, stop_client, failed,
                  hpc, camera, render_vars, midrender_notice >>

BroadcastEnds ==
  /\ bpc' = "idle" /\ bpos' = 0 /\ bsize' = 0 /\ blen' = 0 /\ bcur' = 0
  /\ bkeys' = 0

\* next() of the dict iterator: "dictionary changed size during iteration" is
\* raised outside the try of the loop body and leaves the callback.  With an
\* unchanged size and no key expected any more, a key found raises in the
\* interpreters that count the keys and is visited in those that do not.
OptionUpdatedNext ==
  /\ bpc = "next"
  /\ IF Cardinality(clients) # bsize
       THEN BroadcastEnds /\ escaped' = escaped \cup {"options"}
       ELSE LET cand == {i \in (bpos + 1)..Len(order) : order[i] \in clients} IN
              IF cand = {}
                THEN BroadcastEnds /\ UNCHANGED escaped
                ELSE \/ /\ blen = 0
                        /\ BroadcastEnds /\ escaped' = escaped \cup {"options"}
                     \/ /\ bpc' = "b1"
                        /\ bpos' = Min(cand)
                        /\ bcur' = order[Min(cand)]
                        /\ blen' = IF blen = 0 THEN 0 ELSE blen - 1
                        /\ UNCHANGED << bsize, bkeys, escaped >>
  /\ UNCHANGED << viewer_vars, rendered, cleanups, dead_at_disconnect, quiet,
                  events, order, clients, opt_version, pc,
                  trigger_wait_return, render_trigger, last_camera, state,
                  stop_client, failed, hpc, camera, render_vars,
                  midrender_notice >>

\* line 349; a KeyError of self.clients[i] is swallowed by the bare except
OptionUpdatedSetState ==
  /\ bpc = "b1"
  /\ IF bcur \in clients
       THEN /\ state' = [state EXCEPT ![bcur] = "low"]
            /\ midrender_notice' =
                 [midrender_notice EXCEPT ![bcur] =
                    IF pc[bcur] = "rendering" /\ @ <= 0 THEN -1 ELSE @]
            /\ quiet' = [quiet EXCEPT ![bcur] = 0]
            /\ bpc' = "b2"
       ELSE bpc' = "next" /\ UNCHANGED << state, midrender_notice, quiet >>
  /\ UNCHANGED << viewer_vars, rendered, cleanups, dead_at_disconnect, events,
                  order, clients, opt_version, bpos, bsize, blen, bcur, bkeys,
                  escaped, pc, trigger_wait_return, render_trigger,
                  last_camera, stop_client, failed, hpc, camera, render_vars
                  >>

\* line 350
OptionUpdatedSetTrigger ==
  /\ bpc = "b2"
  /\ IF bcur \in clients
       THEN /\ render_trigger' = [render_trigger EXCEPT ![bcur] = TRUE]
            /\ midrender_notice' =
                 [midrender_notice EXCEPT ![bcur] =
                    IF @ = -1 THEN opt_version ELSE @]
            /\ quiet' = [quiet EXCEPT ![bcur] = 0]
       ELSE UNCHANGED << render_trigger, midrender_notice, quiet >>
  /\ bpc' = "next"
  /\ UNCHANGED << viewer_vars, rendered, cleanups, dead_at_disconnect, events,
                  order, clients, opt_version, bpos, bsize, blen, bcur, bkeys,
                  escaped, pc, trigger_wait_return, last_camera, state,
                  stop_client, failed, hpc, camera, render_vars >>

(* ---- Client: the camera.on_update handler (lines 58-63) ---- *)
PoseUpdate_dropped_while_rendering(c) ==
  /\ c \in clients
  /\ hpc[c] = "idle"
  /\ Event
  /\ camera' = [camera EXCEPT ![c] = @ + 1]
  /\ IF pc[c] = "done"
       THEN /\ escaped' = escaped \cup {"pose"}
            /\ UNCHANGED << last_camera, hpc >>
       ELSE IF pc[c] = "rendering"
         THEN UNCHANGED << last_camera, hpc, escaped >>
         ELSE /\ last_camera' = [last_camera EXCEPT ![c] = camera'[c]]
              /\ hpc' = [hpc EXCEPT ![c] = "h2"]
              /\ UNCHANGED escaped
  /\ quiet' = [quiet EXCEPT ![c] = 0]
  /\ UNCHANGED << viewer_vars, rendered, cleanups, dead_at_disconnect,
                  order, clients, opt_version, broadcast_vars, pc,
                  trigger_wait_return, render_trigger, state, stop_client,
                  failed, render_vars, midrender_notice >>

\* The transport calls the handler of an open connection with its camera
\* handle; client.atomic() admits one handler of a connection at a time.
\* After _destroy, self.client is None and line 60 raises AttributeError.
PoseUpdate(c) ==
  /\ c \in clients
  /\ hpc[c] = "idle"
  /\ Event
  /\ camera' = [camera EXCEPT ![c] = @ + 1]
  /\ IF pc[c] = "done"
       THEN /\ escaped' = escaped \cup {"pose"}
            /\ UNCHANGED << last_camera, hpc >>
       ELSE /\ last_camera' = [last_camera EXCEPT ![c] = camera'[c]]
            /\ hpc' = [hpc EXCEPT ![c] = "h2"]
            /\ UNCHANGED escaped
  /\ quiet' = [quiet EXCEPT ![c] = 0]
  /\ UNCHANGED << viewer_vars, rendered, cleanups, dead_at_disconnect, order,
                  clients, opt_version, broadcast_vars, pc,
                  trigger_wait_return, render_trigger, state, stop_client,
                  failed, render_vars, midrender_notice >>

\* line 62
PoseSetState(c) ==
  /\ hpc[c] = "h2"
  /\ state' = [state EXCEPT ![c] = "low"]
  /\ hpc' = [hpc EXCEPT ![c] = "h3"]
  /\ quiet' = [quiet EXCEPT ![c] = 0]
  /\ UNCHANGED << viewer_vars, rendered, cleanups, dead_at_disconnect, events,
                  order, clients, opt_version, broadcast_vars, escaped, pc,
                  trigger_wait_return, render_trigger, last_camera,
                  stop_client, failed, camera, render_vars, midrender_notice
                  >>

\* line 63
PoseSetTrigger(c) ==
  /\ hpc[c] = "h3"
  /\ render_trigger' = [render_trigger EXCEPT ![c] = TRUE]
  /\ hpc' = [hpc EXCEPT ![c] = "idle"]
  /\ quiet' = [quiet EXCEPT ![c] = 0]
  /\ UNCHANGED << viewer_vars, rendered, cleanups, dead_at_disconnect, events,
                  order, clients, opt_version, broadcast_vars, escaped, pc,
                  trigger_wait_return, last_camera, state, stop_client,
                  failed, camera, render_vars, midrender_notice >>

(* ---- Client.run (lines 124-151) ---- *)
\* line 126: wait(0.2) returns True when the event is set, False on timeout
Wait(c) ==
  /\ pc[c] = "wait"
  /\ trigger_wait_return' = [trigger_wait_return EXCEPT ![c] = render_trigger[c]]
  /\ pc' = [pc EXCEPT ![c] = "woke"]
  /\ quiet' = [quiet EXCEPT ![c] =
                IF @ = 0 /\ ~render_trigger[c] /\ state[c] = "low"
                   /\ last_camera[c] # 0
                  THEN 1 ELSE @]
  /\ UNCHANGED << viewer_vars, rendered, cleanups, dead_at_disconnect, events,
                  order, clients, opt_version, broadcast_vars, escaped,
                  render_trigger, last_camera, state, stop_client, failed,
                  hpc, camera, render_vars, midrender_notice >>

\* _destroy (lines 162-167), reached by the break of line 129 or 149: viewer,
\* renderer, client and last_camera become None; self.viewer.clients is not
\* touched.  pc "done": the thread has ended and self.client is None.
destroy(c) ==
  /\ pc' = [pc EXCEPT ![c] = "done"]
  /\ last_camera' = [last_camera EXCEPT ![c] = 0]
  /\ cleanups' = [cleanups EXCEPT ![c] = @ + 1]

run_check_rerender_when_high(stop, twr, cam, st) ==
  IF stop THEN "destroy"
  ELSE IF ~twr
    THEN IF cam = 0 THEN "wait"
         ELSE IF st = "low" THEN "promote" ELSE "clear"
  ELSE "clear"

run_check_ignores_stop(stop, twr, cam, st) ==
  IF ~twr
    THEN IF cam = 0 THEN "wait"
         ELSE IF st = "low" THEN "promote" ELSE "wait"
  ELSE "clear"

\* lines 128-140, up to the test of self.state: where the loop goes next
run_check(stop, twr, cam, st) ==
  IF stop THEN "destroy"
  ELSE IF ~twr
    THEN IF cam = 0 THEN "wait"
         ELSE IF st = "low" THEN "promote" ELSE "wait"
  ELSE "clear"

\* the local trigger_wait_return is dead once line 130 has read it on a path
\* that does not render: it is kept up to the render it leads to
Check(c) ==
  /\ pc[c] = "woke"
  /\ LET to == run_check(stop_client[c], trigger_wait_return[c],
                         last_camera[c], state[c]) IN
       IF to = "destroy"
         THEN /\ destroy(c)
              /\ trigger_wait_return' = [trigger_wait_return EXCEPT ![c] = FALSE]
              /\ midrender_notice' = [midrender_notice EXCEPT ![c] = 0]
              /\ quiet' = [quiet EXCEPT ![c] = 0]
         ELSE /\ pc' = [pc EXCEPT ![c] = to]
              /\ trigger_wait_return' = [trigger_wait_return EXCEPT ![c] =
                                           IF to = "wait" THEN FALSE ELSE @]
              /\ UNCHANGED << last_camera, midrender_notice, quiet, cleanups >>
  /\ UNCHANGED << viewer_vars, rendered, dead_at_disconnect, events, order,
                  clients, opt_version, broadcast_vars, escaped,
                  render_trigger, state, stop_client, failed, hpc, camera,
                  render_vars >>

\* line 138
Promote(c) ==
  /\ pc[c] = "promote"
  /\ state' = [state EXCEPT ![c] = "high"]
  /\ pc' = [pc EXCEPT ![c] = "clear"]
  /\ quiet' = [quiet EXCEPT ![c] = IF @ >= 2 THEN 3 ELSE @]
  /\ UNCHANGED << viewer_vars, rendered, cleanups, dead_at_disconnect, events,
                  order, clients, opt_version, broadcast_vars, escaped,
                  trigger_wait_return, render_trigger, last_camera,
                  stop_client, failed, hpc, camera, render_vars,
                  midrender_notice >>

\* line 142
Clear(c) ==
  /\ pc[c] = "clear"
  /\ render_trigger' = [render_trigger EXCEPT ![c] = FALSE]
  /\ pc' = [pc EXCEPT ![c] = "render"]
  /\ UNCHANGED << viewer_vars, rendered, cleanups, dead_at_disconnect, quiet,
                  events, order, clients, opt_version, broadcast_vars,
                  escaped, trigger_wait_return, last_camera, state,
                  stop_client, failed, hpc, camera, render_vars,
                  midrender_notice >>

get_render_options_always_static(c) == [tier |-> "high", version |-> opt_version]

\* get_render_options (lines 153-156): the tier, and the sliders as they are
get_render_options(c) == [tier |-> state[c], version |-> opt_version]

\* the readings of the render in flight end with it
RenderEnds(c) ==
  /\ rcam' = [rcam EXCEPT ![c] = 0]
  /\ rtier' = [rtier EXCEPT ![c] = "low"]
  /\ rver' = [rver EXCEPT ![c] = 0]
  /\ rwxyz' = [rwxyz EXCEPT ![c] = 0]
  /\ rpos' = [rpos EXCEPT ![c] = 0]

\* render_and_send, lines 66-73: cam = self.last_camera, and the orientation
\* from self.client.camera.wxyz, the pose the transport holds at this moment
RenderReadOrientation(c) ==
  /\ pc[c] = "render"
  /\ pc' = [pc EXCEPT ![c] = "read"]
  /\ rcam' = [rcam EXCEPT ![c] = last_camera[c]]
  /\ rwxyz' = [rwxyz EXCEPT ![c] = camera[c]]
  /\ UNCHANGED << viewer_vars, dead_at_disconnect, quiet, events, order,
                  clients, opt_version, broadcast_vars, escaped,
                  trigger_wait_return, render_trigger, last_camera, state,
                  stop_client, failed, hpc, camera, rtier, rver, rpos,
                  midrender_notice, rendered, cleanups >>

\* render_and_send, lines 74-112: the position from
\* self.client.camera.position, the resolution from cam.aspect and
\* get_render_options, the focal length from cam.fov.  With no pose cached,
\* cam is None and cam.aspect raises; run() catches it and leaves the loop.
RenderStart(c) ==
  /\ pc[c] = "read"
  /\ IF rcam[c] = 0
       THEN /\ destroy(c)
            /\ failed' = [failed EXCEPT ![c] = TRUE]
            /\ midrender_notice' = [midrender_notice EXCEPT ![c] = 0]
            /\ quiet' = [quiet EXCEPT ![c] = 0]
            /\ RenderEnds(c)
            /\ UNCHANGED rendered
       ELSE /\ pc' = [pc EXCEPT ![c] = "rendering"]
            /\ rpos' = [rpos EXCEPT ![c] = camera[c]]
            /\ rtier' = [rtier EXCEPT ![c] = get_render_options(c).tier]
            /\ rver' = [rver EXCEPT ![c] = get_render_options(c).version]
            /\ rendered' = [rendered EXCEPT ![c] = rcam[c]]
            /\ midrender_notice' = [midrender_notice EXCEPT ![c] =
                                      IF @ > 0 THEN -2 ELSE 0]
            /\ quiet' = [quiet EXCEPT ![c] =
                           IF @ = 0 THEN 0 ELSE IF @ = 1 THEN 2 ELSE 3]
            /\ UNCHANGED << failed, last_camera, rcam, rwxyz, cleanups >>
  /\ trigger_wait_return' = [trigger_wait_return EXCEPT ![c] = FALSE]
  /\ UNCHANGED << viewer_vars, dead_at_disconnect, events, order, clients,
                  opt_version, broadcast_vars, escaped, render_trigger, state,
                  stop_client, hpc, camera >>

\* lines 114-122: the renderer returns and set_background_image sends the frame
RenderFinish(c) ==
  /\ pc[c] = "rendering"
  /\ pc' = [pc EXCEPT ![c] = "wait"]
  /\ RenderEnds(c)
  /\ midrender_notice' = [midrender_notice EXCEPT ![c] = IF @ < 0 THEN 0 ELSE @]
  /\ UNCHANGED << viewer_vars, rendered, cleanups, dead_at_disconnect, quiet,
                  events, order, clients, opt_version, broadcast_vars,
                  escaped, trigger_wait_return, render_trigger, last_camera,
                  state, stop_client, failed, hpc, camera >>

RenderFail_stops_all(c) ==
  /\ pc[c] = "rendering"
  /\ destroy(c)
  /\ failed' = [failed EXCEPT ![c] = TRUE]
  /\ stop_client' = [d \in Sessions |-> TRUE]
  /\ RenderEnds(c)
  /\ midrender_notice' = [midrender_notice EXCEPT ![c] = 0]
  /\ quiet' = [quiet EXCEPT ![c] = 0]
  /\ UNCHANGED << viewer_vars, rendered, dead_at_disconnect, events, order,
                  clients, opt_version, broadcast_vars, escaped,
                  trigger_wait_return, render_trigger, state, hpc, camera >>

RenderFail_continues(c) ==
  /\ pc[c] = "rendering"
  /\ pc' = [pc EXCEPT ![c] = "wait"]
  /\ failed' = [failed EXCEPT ![c] = TRUE]
  /\ RenderEnds(c)
  /\ midrender_notice' = [midrender_notice EXCEPT ![c] = 0]
  /\ quiet' = [quiet EXCEPT ![c] = 0]
  /\ UNCHANGED << viewer_vars, rendered, cleanups, last_camera,
                  dead_at_disconnect, events, order, clients, opt_version,
                  broadcast_vars, escaped, trigger_wait_return,
                  render_trigger, state, stop_client, hpc, camera >>

\* lines 146-151: the renderer or the send raises; except ... break; _destroy
RenderFail(c) ==
  /\ pc[c] = "rendering"
  /\ destroy(c)
  /\ failed' = [failed EXCEPT ![c] = TRUE]
  /\ RenderEnds(c)
  /\ midrender_notice' = [midrender_notice EXCEPT ![c] = 0]
  /\ quiet' = [quiet EXCEPT ![c] = 0]
  /\ UNCHANGED << viewer_vars, rendered, dead_at_disconnect, events, order,
                  clients, opt_version, broadcast_vars, escaped,
                  trigger_wait_return, render_trigger, state, stop_client,
                  hpc, camera >>

(* ---- specifications ---- *)
Next ==
  \/ \E c \in Sessions : Connect(c)
  \/ \E c \in Sessions : Disconnect(c)
  \/ \E o \in Sliders : SliderUpdate(o)
  \/ OptionUpdatedNext
  \/ OptionUpdatedSetState
  \/ OptionUpdatedSetTrigger
  \/ \E c \in Sessions : PoseUpdate(c)
  \/ \E c \in Sessions : PoseSetState(c)
  \/ \E c \in Sessions : PoseSetTrigger(c)
  \/ \E c \in Sessions : Wait(c)
  \/ \E c \in Sessions : Check(c)
  \/ \E c \in Sessions : Promote(c)
  \/ \E c \in Sessions : Clear(c)
  \/ \E c \in Sessions : RenderReadOrientation(c)
  \/ \E c \in Sessions : RenderStart(c)
  \/ \E c \in Sessions : RenderFinish(c)
  \/ \E c \in Sessions : RenderFail(c)

Spec == Init /\ [][Next]_vars

\* Every thread that can take a step takes one: the loop of a session (its
\* wait returns after 0.2 s at the latest, and a render in flight returns or
\* raises), a handler inside client.atomic(), the broadcast callback.
Loop(c) ==
  \/ Wait(c) \/ Check(c) \/ Promote(c) \/ Clear(c)
  \/ RenderReadOrientation(c) \/ RenderStart(c) \/ RenderFinish(c)
  \/ RenderFail(c)
Handler(c) == PoseSetState(c) \/ PoseSetTrigger(c)
Broadcast ==
  OptionUpdatedNext \/ OptionUpdatedSetState \/ OptionUpdatedSetTrigger

SpecLive ==
  /\ Spec
  /\ \A c \in Sessions : WF_vars(Loop(c)) /\ WF_vars(Handler(c))
  /\ WF_vars(Broadcast)

\* start-up for every configuration, and the connections it admits
NextStartup ==
  \/ Construct
  \/ Start
  \/ \E c \in Sessions : Connect(c)
  \/ \E c \in Sessions : Disconnect(c)

SpecStartup == InitStartup /\ [][NextStartup]_vars

(* ---- one call of rotation_matrix(up, [0, 0, 1]) ---- *)
InitRotation ==
  /\ Serving /\ ResolutionIdle
  /\ rot_pc = "call" /\ rot_a \in RotationInputs /\ rot_depth = 0

\* lines 253-260: a call that finds a opposite to b draws eps and calls
\* itself with a + eps; nothing in the code counts the calls, the
\* interpreter ends the chain with a RecursionError
RotationRetry ==
  /\ rot_pc = "call" /\ opposite(rot_a)
  /\ IF rot_depth = MaxRecursion
       THEN rot_pc' = "recursion_error" /\ UNCHANGED << rot_a, rot_depth >>
       ELSE \E eps \in Eps :
              /\ rot_a' = [i \in 1..3 |-> normalised(rot_a)[i] + eps[i]]
              /\ rot_depth' = rot_depth + 1
              /\ rot_pc' = "call"
  /\ UNCHANGED << server_vars, session_vars, resolution_vars >>

\* lines 261-269: the Rodrigues formula for a and b
RotationReturn ==
  /\ rot_pc = "call" /\ ~opposite(rot_a)
  /\ rot_pc' = "returned"
  /\ UNCHANGED << rot_a, rot_depth, server_vars, session_vars,
                  resolution_vars >>

NextRotation == RotationRetry \/ RotationReturn
SpecRotation == InitRotation /\ [][NextRotation]_vars

(* ---- one evaluation of the image size ---- *)
InitResolution ==
  /\ Serving /\ RotationIdle
  /\ res_pc = "input" /\ max_res \in 1..MaxRes
  /\ aspect_ratio \in (1..MaxAspect) \X (1..MaxAspect)
  /\ image_width = 0 /\ image_height = 0

ComputeResolution ==
  /\ res_pc = "input"
  /\ res_pc' = "done"
  /\ image_width' = resolution(max_res, aspect_ratio).width
  /\ image_height' = resolution(max_res, aspect_ratio).height
  /\ UNCHANGED << max_res, aspect_ratio, server_vars, session_vars,
                  rotation_vars >>

NextResolution == ComputeResolution
SpecResolution == InitResolution /\ [][NextResolution]_vars

(* ---- claims ---- *)

\* C1: whenever the pose-update handler of a session finishes (line 63 done),
\* the session's state is "low", whatever the render loop did meanwhile.
\* Stated as written; the code lets line 138 overwrite the handler's "low".
C1_PoseUpdateLeavesLow ==
  [][\A c \in Sessions :
       (hpc[c] = "h3" /\ hpc'[c] = "idle") => state'[c] = "low"]_vars

\* C2: from a wait that timed out in "low" with a pose cached, and as long as
\* no pose update and no broadcast touches the session, the loop promotes once
\* and starts exactly one frame, at "high", before it waits again; every
\* later timed-out wait finds "high", changes nothing and renders nothing.
C2_PromotesOnceWhenIdle ==
  \A c \in Sessions :
    /\ quiet[c] # 3
    /\ quiet[c] = 1 =>
         /\ pc[c] \in {"woke", "promote", "clear", "render", "read"}
         /\ pc[c] \in {"woke", "promote"} => state[c] = "low"
         /\ pc[c] \in {"clear", "render", "read"} => state[c] = "high"
         /\ ~trigger_wait_return[c] /\ ~render_trigger[c]
    /\ quiet[c] = 2 =>
         /\ state[c] = "high"
         /\ pc[c] \in {"rendering", "wait", "woke"}
         /\ pc[c] = "rendering" => rtier[c] = "high"
         /\ ~trigger_wait_return[c] /\ ~render_trigger[c]

\* C2 witness: the promoted frame has been sent and a later wait has timed out
\* again, the session still "high"
C2_Witness ==
  \E c \in Sessions : quiet[c] = 2 /\ pc[c] = "woke" /\ ~trigger_wait_return[c]

\* C3: when the broadcast has notified a session of the registry (lines 349
\* and 350 done for it), that session is in "low".  Stated as written; the
\* code lets a promotion in progress overwrite the broadcast's "low".
C3_BroadcastForcesLow ==
  [][(bpc = "b2" /\ bpc' = "next" /\ bcur \in clients)
       => state'[bcur] = "low"]_vars

\* C4: a session whose loop ended on a render or send error is no longer in
\* the registry.  Stated as written; _destroy never touches self.clients.
C4_FailedSessionDropped ==
  \A c \in Sessions : (failed[c] /\ pc[c] = "done") => c \notin clients

\* C5: the step in which one session's render or send fails changes nothing of
\* any other session (loop position, state, cached pose, signal, stop flag,
\* handler, render in flight) nor of the registry.
C5_FaultIsolation ==
  [][\A c \in Sessions :
       (~failed[c] /\ failed'[c]) =>
         /\ clients' = clients /\ order' = order
         /\ \A d \in Sessions \ {c} :
              /\ pc'[d] = pc[d] /\ state'[d] = state[d]
              /\ last_camera'[d] = last_camera[d]
              /\ render_trigger'[d] = render_trigger[d]
              /\ stop_client'[d] = stop_client[d] /\ failed'[d] = failed[d]
              /\ hpc'[d] = hpc[d] /\ rcam'[d] = rcam[d]
              /\ rtier'[d] = rtier[d]]_vars

\* C5 witness: one session has failed and another one, not failed and not
\* stopped, has a render in flight of a pose it holds
C5_Witness ==
  \E c, d \in Sessions :
    /\ c # d /\ failed[c] /\ pc[c] = "done"
    /\ pc[d] = "rendering" /\ rcam[d] > 0 /\ ~failed[d] /\ ~stop_client[d]

\* C6: in every reachable registry, for every connection id, the disconnect
\* handler leaves the registry without the id, touches no other entry and no
\* other session's stop flag, raises nothing, and applied a second time
\* changes nothing; no disconnect that ran let an exception out.
C6_DisconnectIdempotent ==
  /\ "disconnect" \notin escaped
  /\ \A c \in Sessions :
       LET r1 == handle_client_disconnect(clients, stop_client, c)
           r2 == handle_client_disconnect(r1.clients, r1.stop_client, c)
       IN /\ c \notin r1.clients
          /\ r1.clients \ {c} = clients \ {c}
          /\ \A d \in Sessions \ {c} : r1.stop_client[d] = stop_client[d]
          /\ ~r1.raised /\ ~r2.raised
          /\ r2.clients = r1.clients /\ r2.stop_client = r1.stop_client

\* C6 witness: a session that ended itself on a render error has then been
\* disconnected and is out of the registry
C6_Witness ==
  \E c \in Sessions :
    failed[c] /\ pc[c] = "done" /\ dead_at_disconnect[c] /\ c \notin clients

\* C7: every change of a slider value starts the options broadcast.  Stated
\* as written; start() registers no on_update on the two "when moving" sliders.
C7_EveryMutationBroadcasts ==
  [][opt_version' # opt_version => bpc' = "next"]_vars

C9_EnableWithoutReferenceFails ==
  (mode = "enable" /\ ~cameras_json_exists) =>
    /\ vpc \in {"init", "failed"}
    /\ clients = {} /\ order = << >>
    /\ \A c \in Sessions : pc[c] = "none"

\* C9 witness: that start-up has failed
C9_Witness == mode = "enable" /\ ~cameras_json_exists /\ vpc = "failed"

\* C10: with reorient "disable", construction succeeds with the identity as
\* camera_transform and without asking the file system about cameras.json,
\* whether the file exists, whatever it holds and whatever the dataset type.
C10_DisableIsIdentity ==
  (mode = "disable" /\ vpc # "init") =>
    /\ vpc # "failed"
    /\ camera_transform = eye4
    /\ ~fs_touched

\* C10 witness: such a server is up beside a cameras.json that would have
\* turned the scene
C10_Witness ==
  /\ mode = "disable" /\ vpc = "serving" /\ cameras_json_exists
  /\ dataset_type = "colmap" /\ up_sum = <<-1, 0, 0>>
  /\ reorient("enable", TRUE, "colmap", up_sum).transform # eye4

\* C11: for every cap and every aspect ratio the computed width and height
\* are both at most the cap, and the longer of the two equals the cap.
C11_LongerSideIsCap ==
  res_pc = "done" =>
    /\ image_width <= max_res /\ image_height <= max_res
    /\ (IF image_width >= image_height THEN image_width ELSE image_height)
         = max_res

\* a landscape view for which line 94 found the width above the cap
C11_Witness ==
  /\ res_pc = "done" /\ aspect_ratio[1] > aspect_ratio[2]
  /\ image_width = max_res /\ image_height < max_res

\* C12: a call of the rotation solver with exactly opposite vectors ends
\* with a rotation: the chain of retries never exhausts the call stack.
C12_RotationReturns == rot_pc # "recursion_error"

\* C13: the loop calls render_and_send only with a pose cached: no session
\* enters the render step while last_camera is None.  Stated as written; a
\* broadcast signal before the first pose update leads the loop there.
C13_RenderNeedsPose ==
  [][\A c \in Sessions :
       (pc[c] = "render" /\ pc'[c] = "read") => last_camera[c] # 0]_vars

\* C14: once stop() has set the flag the loop ends, with no further signal
\* needed; _destroy has run exactly once when the loop has ended and not
\* before; it runs either between two iterations on the stop flag or after
\* the render step has raised, never beside a render in flight.
C14_StopLeadsToCleanup ==
  /\ \A c \in Sessions : stop_client[c] ~> (pc[c] = "done")
  /\ [](\A c \in Sessions :
          cleanups[c] = IF pc[c] = "done" THEN 1 ELSE 0)
  /\ [][\A c \in Sessions :
          cleanups'[c] # cleanups[c] =>
            /\ pc'[c] = "done" /\ rcam'[c] = 0
            /\ \/ pc[c] = "woke" /\ stop_client[c] /\ rcam[c] = 0
               \/ pc[c] \in {"read", "rendering"} /\ failed'[c]]_vars

\* C14 witness: a session that was asked to stop while its render was in
\* flight, whose render then failed
C14_Witness ==
  \E c \in Sessions :
    /\ pc[c] = "done" /\ cleanups[c] = 1 /\ failed[c] /\ rendered[c] > 0
    /\ stop_client[c] /\ c \notin clients /\ ~dead_at_disconnect[c]

\* C15: when a broadcast ends, every session that was in the registry when
\* it began and is still there has been visited (set to "low" and
\* signalled), whatever failed or changed the registry meanwhile.  Stated as
\* written; "dictionary changed size" ends the loop of line 347.
C15_BroadcastReachesAll ==
  [][(bpc = "next" /\ bpc' = "idle") =>
       \A i \in (bpos + 1)..bkeys : order[i] \notin clients]_vars

\* C16: every frame is started from the latest pose delivered to the session
\* by then, and while a delivered pose has no frame yet, a frame is later
\* started from the most recent pose delivered, unless the session has been
\* stopped or its loop has ended meanwhile.
C16_LatestPoseRendered ==
  /\ [][\A c \in Sessions :
          (pc[c] = "render" /\ pc'[c] = "read") => rcam'[c] = camera[c]]_vars
  /\ \A c \in Sessions :
       (camera[c] > rendered[c])
         ~> (rendered[c] = camera[c] \/ stop_client[c] \/ pc[c] = "done")

\* C16 witness: three poses in a burst, the first two never rendered, and a
\* frame of the third one in flight
C16_Witness ==
  \E c \in Sessions :
    /\ camera[c] = 3 /\ pc[c] = "rendering" /\ rcam[c] = 3
    /\ events = 4 /\ ~stop_client[c]

\* C17: the first frame started from a pose is at tier "low", and a session
\* goes from "low" to "high" only while no pose update and no broadcast has
\* touched it since its wait timed out.  Stated as written; a handler that
\* runs between lines 137 and 138 is overwritten by the promotion.
C17_FreshPoseAtLow ==
  [][\A c \in Sessions :
       /\ (pc[c] = "read" /\ pc'[c] = "rendering" /\ rcam[c] > rendered[c])
            => rtier'[c] = "low"
       /\ (state[c] = "low" /\ state'[c] = "high") => quiet[c] >= 1]_vars

\* C18: a session whose loop has ended stays ended: no step after that
\* starts a frame for it, and a render that failed has ended the loop.
C18_StoppedIsTerminal ==
  /\ [](\A c \in Sessions : failed[c] => pc[c] = "done")
  /\ [][\A c \in Sessions :
          pc[c] = "done" =>
            /\ pc'[c] = "done" /\ rendered'[c] = rendered[c]
            /\ rcam'[c] = 0 /\ cleanups'[c] = cleanups[c]]_vars

\* C18 witness: a pose update has been delivered to a session after its loop
\* ended, and the event of that session is set
C18_Witness ==
  \E c \in Sessions :
    /\ pc[c] = "done" /\ "pose" \in escaped /\ render_trigger[c]
    /\ \A d \in Sessions \ {c} : camera[d] = 0

\* C19: no pose-update handler lets an exception out, also not the handler
\* of a session whose _destroy has run.  Stated as written; self.client is
\* None by then and line 60 raises.
C19_PoseAfterCleanupIsQuiet == "pose" \notin escaped

\* C20: the orientation and the position of a frame in flight belong to the
\* pose the frame was started from.  Stated as written; lines 71 and 74 read
\* the live camera of the connection one after the other.
C20_SinglePoseSnapshot ==
  \A c \in Sessions :
    pc[c] = "rendering" => rwxyz[c] = rcam[c] /\ rpos[c] = rcam[c]

====
